---- MODULE Spec2Model ----
(***************************************************************************)
(* Model of goreleases.Fetch (fetch.go): download a release archive,       *)
(* extract it entry by entry below the destination directory, verify the   *)
(* SHA-256 of what was read and roll back on failure.                      *)
(*                                                                         *)
(* A string is a sequence of tokens: the separator "/" or a name (a        *)
(* maximal run of non-separator characters, "." and ".." included).        *)
(* Prefix, suffix and concatenation on token sequences coincide with the   *)
(* same operations on the byte strings wherever the code uses them: the    *)
(* prefix dst always ends with a separator.                                *)
(***************************************************************************)
EXTENDS Integers, Sequences, FiniteSets, TLC

Sep == "/"

(* ------------------------------------------------------------------ *)
(* Bounds of the model.                                                *)
(* ------------------------------------------------------------------ *)

\* Longest archive, in entries.
MaxEntries == 2
\* Most units of the response body that follow the tar end-of-archive marker
\* (padding blocks, the gzip trailer): bytes no decoder has to read.
MaxTail == 1
\* Symbolic links followed in one path resolution before ELOOP.
MaxSymlinks == 3

(* ------------------------------------------------------------------ *)
(* Package strings and path, as used by fetch.go.                      *)
(* ------------------------------------------------------------------ *)

Last(s) == s[Len(s)]

Front(s) == SubSeq(s, 1, Len(s) - 1)

\* strings.HasPrefix
HasPrefix(s, p) == Len(s) >= Len(p) /\ SubSeq(s, 1, Len(p)) = p

\* strings.HasSuffix
HasSuffix(s, x) == Len(s) >= Len(x) /\ SubSeq(s, Len(s) - Len(x) + 1, Len(s)) = x

Rooted(s) == Len(s) > 0 /\ s[1] = Sep

\* The names of a path string, in order, separators and empty names dropped.
Names(s) == SelectSeq(s, LAMBDA t : t # Sep)

RECURSIVE JoinSep(_)
\* The names written with one separator between neighbours.
JoinSep(names) ==
    IF Len(names) <= 1 THEN names
    ELSE <<Head(names), Sep>> \o JoinSep(Tail(names))

RECURSIVE CleanNames(_, _, _)
\* path.Clean's pass over the names: "." is dropped, ".." removes the name
\* before it, is dropped at the root and is kept at the front of a relative path.
CleanNames(names, rooted, out) ==
    IF names = <<>> THEN out
    ELSE LET n == Head(names) IN
         IF n = "." THEN CleanNames(Tail(names), rooted, out)
         ELSE IF n = ".." THEN
              IF out # <<>> /\ Last(out) # ".."
              THEN CleanNames(Tail(names), rooted, Front(out))
              ELSE IF rooted THEN CleanNames(Tail(names), rooted, out)
              ELSE CleanNames(Tail(names), rooted, Append(out, ".."))
         ELSE CleanNames(Tail(names), rooted, Append(out, n))

\* path.Clean
Clean(s) ==
    IF s = <<>> THEN <<".">>
    ELSE LET out == CleanNames(Names(s), Rooted(s), <<>>) IN
         IF Rooted(s) THEN <<Sep>> \o JoinSep(out)
         ELSE IF out = <<>> THEN <<".">> ELSE JoinSep(out)

\* path.Join of two elements: empty elements are ignored, the rest joined
\* with a separator and cleaned.
Join(a, b) ==
    IF a = <<>> /\ b = <<>> THEN <<>>
    ELSE IF a = <<>> THEN Clean(b)
    ELSE IF b = <<>> THEN Clean(a)
    ELSE Clean(a \o <<Sep>> \o b)

\* Index of the last separator of s, 0 if there is none.
LastSep(s) ==
    LET I == {i \in 1..Len(s) : s[i] = Sep} IN
    IF I = {} THEN 0 ELSE CHOOSE i \in I : \A j \in I : j <= i

\* path.Dir: everything up to the last separator, cleaned.
Dir(s) == Clean(SubSeq(s, 1, LastSep(s)))

(* ------------------------------------------------------------------ *)
(* The filesystem the os package acts on.                              *)
(*                                                                     *)
(* A filesystem is a function from locations to nodes. A location is   *)
(* the sequence of names from the root directory <<>>; the parent of   *)
(* every location of the domain is a directory of the domain.          *)
(* ------------------------------------------------------------------ *)

\* The working directory of the process: relative paths start here.
Cwd == <<"h", "w">>

DirNode == [kind |-> "dir", ino |-> 0, data |-> <<>>, mode |-> 0, target |-> <<>>]

FileNode(i, d, m) == [kind |-> "file", ino |-> i, data |-> d, mode |-> m, target |-> <<>>]

SymlinkNode(t) == [kind |-> "symlink", ino |-> 0, data |-> <<>>, mode |-> 0, target |-> t]

Parent(loc) == IF loc = <<>> THEN <<>> ELSE Front(loc)

\* loc is d or lies below d.
Under(loc, d) == Len(loc) >= Len(d) /\ SubSeq(loc, 1, Len(d)) = d

RECURSIVE Walk(_, _, _, _, _)
\* Path resolution as the kernel does it, from directory cur over names.
\* A symbolic link in the middle of the path is always followed, the last
\* name only when follow is set. The result is an error, or the location
\* the path names and whether something exists there (if not, its parent
\* does, and is a directory).
Walk(f, cur, names, follow, fuel) ==
    IF names = <<>> THEN [err |-> "", loc |-> cur, exists |-> TRUE]
    ELSE LET n == Head(names)
             rest == Tail(names)
             child == Append(cur, n)
         IN
         IF n = "." THEN Walk(f, cur, rest, follow, fuel)
         ELSE IF n = ".." THEN Walk(f, Parent(cur), rest, follow, fuel)
         ELSE IF child \notin DOMAIN f THEN
              IF rest = <<>> THEN [err |-> "", loc |-> child, exists |-> FALSE]
              ELSE [err |-> "ENOENT", loc |-> child, exists |-> FALSE]
         ELSE IF f[child].kind = "symlink" /\ (rest # <<>> \/ follow) THEN
              IF fuel = 0 THEN [err |-> "ELOOP", loc |-> child, exists |-> FALSE]
              ELSE Walk(f, IF Rooted(f[child].target) THEN <<>> ELSE cur,
                        Names(f[child].target) \o rest, follow, fuel - 1)
         ELSE IF f[child].kind = "dir" THEN Walk(f, child, rest, follow, fuel)
         ELSE IF rest = <<>> THEN [err |-> "", loc |-> child, exists |-> TRUE]
         ELSE [err |-> "ENOTDIR", loc |-> child, exists |-> FALSE]

Resolve(f, p, follow) ==
    IF p = <<>> THEN [err |-> "ENOENT", loc |-> <<>>, exists |-> FALSE]
    ELSE Walk(f, IF Rooted(p) THEN <<>> ELSE Cwd, Names(p), follow, MaxSymlinks)

\* os.Stat: the error ("" for none) and the node found, links followed.
Stat(f, p) ==
    LET r == Resolve(f, p, TRUE) IN
    IF r.err # "" THEN [err |-> r.err, node |-> DirNode]
    ELSE IF ~r.exists THEN [err |-> "ENOENT", node |-> DirNode]
    ELSE [err |-> "", node |-> f[r.loc]]

\* os.Lstat: as Stat, the last name not followed.
Lstat(f, p) ==
    LET r == Resolve(f, p, FALSE) IN
    IF r.err # "" THEN [err |-> r.err, node |-> DirNode]
    ELSE IF ~r.exists THEN [err |-> "ENOENT", node |-> DirNode]
    ELSE [err |-> "", node |-> f[r.loc]]

\* os.IsNotExist
IsNotExist(e) == e = "ENOENT"

\* A fresh inode number.
NewIno(f) ==
    LET used == {f[l].ino : l \in DOMAIN f} IN
    1 + (CHOOSE m \in used \cup {0} : \A k \in used : k <= m)

\* A Mkdir that accepts a directory that is already there.
MkdirTolerant(f, p) ==
    LET r == Resolve(f, p, FALSE) IN
    IF r.err # "" THEN [fs |-> f, err |-> r.err]
    ELSE IF r.exists /\ f[r.loc].kind = "dir" THEN [fs |-> f, err |-> ""]
    ELSE IF r.exists THEN [fs |-> f, err |-> "EEXIST"]
    ELSE [fs |-> (r.loc :> DirNode) @@ f, err |-> ""]

\* os.Mkdir: the last name must not exist, not even as a dangling link.
Mkdir(f, p) ==
    LET r == Resolve(f, p, FALSE) IN
    IF r.err # "" THEN [fs |-> f, err |-> r.err]
    ELSE IF r.exists THEN [fs |-> f, err |-> "EEXIST"]
    ELSE [fs |-> (r.loc :> DirNode) @@ f, err |-> ""]

\* The parent MkdirAll creates first: the path up to its last separator,
\* none for a single name.
MkdirAllParent(p) ==
    IF LastSep(p) = 0 THEN <<>>
    ELSE IF LastSep(p) = 1 THEN <<Sep>>
    ELSE SubSeq(p, 1, LastSep(p) - 1)

RECURSIVE MkdirAll(_, _)
\* os.MkdirAll: nothing to do for an existing directory, otherwise the
\* parent first and then Mkdir. Directories created before a failure stay.
MkdirAll(f, p) ==
    LET st == Stat(f, p) IN
    IF st.err = "" THEN
         [fs |-> f, err |-> IF st.node.kind = "dir" THEN "" ELSE "ENOTDIR"]
    ELSE LET up == IF MkdirAllParent(p) = <<>> THEN [fs |-> f, err |-> ""]
                   ELSE MkdirAll(f, MkdirAllParent(p))
         IN
         IF up.err # "" THEN up
         ELSE LET m == Mkdir(up.fs, p)
                  ls == Lstat(up.fs, p)
              IN
              IF m.err # "" /\ ls.err = "" /\ ls.node.kind = "dir"
              THEN [fs |-> up.fs, err |-> ""]
              ELSE m

\* The mode bits os.Create asks for (0666).
CreateMode == 438

\* os.Create: open with O_RDWR|O_CREATE|O_TRUNC. The last name is followed
\* if it is a symbolic link; an existing file is truncated (every name of
\* its inode sees that), a missing one is created where the path leads.
Create(f, p) ==
    LET r == Resolve(f, p, TRUE) IN
    IF r.err # "" THEN [fs |-> f, err |-> r.err, ino |-> 0]
    ELSE IF ~r.exists THEN
         [fs |-> (r.loc :> FileNode(NewIno(f), <<>>, CreateMode)) @@ f,
          err |-> "", ino |-> NewIno(f)]
    ELSE IF f[r.loc].kind # "file" THEN [fs |-> f, err |-> "EISDIR", ino |-> 0]
    ELSE [fs |-> [l \in DOMAIN f |->
                    IF f[l].kind = "file" /\ f[l].ino = f[r.loc].ino
                    THEN [f[l] EXCEPT !.data = <<>>] ELSE f[l]],
          err |-> "", ino |-> f[r.loc].ino]

\* (*os.File).Write through an open file: the inode's data grows by d.
FileWrite(f, i, d) ==
    [l \in DOMAIN f |->
        IF f[l].kind = "file" /\ f[l].ino = i
        THEN [f[l] EXCEPT !.data = @ \o d] ELSE f[l]]

\* (*os.File).Chmod
FileChmod(f, i, m) ==
    [l \in DOMAIN f |->
        IF f[l].kind = "file" /\ f[l].ino = i
        THEN [f[l] EXCEPT !.mode = m] ELSE f[l]]

\* A Link that makes a copy: a new file with the contents of the old one.
LinkCopies(f, old, new) ==
    LET o == Resolve(f, old, FALSE)
        n == Resolve(f, new, FALSE)
    IN
    IF o.err # "" THEN [fs |-> f, err |-> o.err]
    ELSE IF ~o.exists THEN [fs |-> f, err |-> "ENOENT"]
    ELSE IF f[o.loc].kind = "dir" THEN [fs |-> f, err |-> "EPERM"]
    ELSE IF n.err # "" THEN [fs |-> f, err |-> n.err]
    ELSE IF n.exists THEN [fs |-> f, err |-> "EEXIST"]
    ELSE [fs |-> (n.loc :> [f[o.loc] EXCEPT !.ino = NewIno(f)]) @@ f, err |-> ""]

\* os.Link: a second name for what old names; neither name is followed,
\* directories cannot be linked, new must not exist.
Link(f, old, new) ==
    LET o == Resolve(f, old, FALSE)
        n == Resolve(f, new, FALSE)
    IN
    IF o.err # "" THEN [fs |-> f, err |-> o.err]
    ELSE IF ~o.exists THEN [fs |-> f, err |-> "ENOENT"]
    ELSE IF f[o.loc].kind = "dir" THEN [fs |-> f, err |-> "EPERM"]
    ELSE IF n.err # "" THEN [fs |-> f, err |-> n.err]
    ELSE IF n.exists THEN [fs |-> f, err |-> "EEXIST"]
    ELSE [fs |-> (n.loc :> f[o.loc]) @@ f, err |-> ""]

\* os.Symlink: a link at new whose text is old, stored as given.
Symlink(f, old, new) ==
    LET n == Resolve(f, new, FALSE) IN
    IF n.err # "" THEN [fs |-> f, err |-> n.err]
    ELSE IF n.exists THEN [fs |-> f, err |-> "EEXIST"]
    ELSE [fs |-> (n.loc :> SymlinkNode(old)) @@ f, err |-> ""]

\* os.RemoveAll: removes what p names and everything below it; the last
\* name is not followed, a missing path is no error.
RemoveAll(f, p) ==
    LET r == Resolve(f, p, FALSE) IN
    IF r.err # "" \/ ~r.exists \/ r.loc = <<>> THEN f
    ELSE [l \in {k \in DOMAIN f : ~Under(k, r.loc)} |-> f[l]]

(* ------------------------------------------------------------------ *)
(* The inputs: archives, response bodies, destinations.                *)
(* ------------------------------------------------------------------ *)

\* A tar header with the entry's data: tar.Header's Typeflag, Name,
\* Linkname, Size and Mode. Data is what the entry's sub-stream holds.
Entry(t, n, l, d, m) ==
    [Typeflag |-> t, Name |-> n, Linkname |-> l, Size |-> Len(d), Data |-> d, Mode |-> m]

\* The entries archives are built from: objects inside go, objects that
\* are inside dst but not inside go, paths and link targets with "..",
\* a global header and a type store does not support. Modes are 0644,
\* 04755, 0755 and 0777.
Entries ==
    { Entry("Dir", <<"go", Sep>>, <<>>, <<>>, 493),
      Entry("Reg", <<"go", Sep, "V">>, <<>>, <<"a">>, 420),
      Entry("Reg", <<"x">>, <<>>, <<"b">>, 2541),
      Entry("Reg", <<"..", Sep, "x">>, <<>>, <<"c">>, 420),
      Entry("Symlink", <<"l">>, <<"x">>, <<>>, 511),
      Entry("Reg", <<"l">>, <<>>, <<"d">>, 420),
      Entry("Symlink", <<"go", Sep, "s">>, <<"..", Sep, "..", Sep, "x">>, <<>>, 511),
      Entry("Link", <<"go", Sep, "h">>, <<"go", Sep, "V">>, <<>>, 420),
      Entry("XGlobalHeader", <<"p", Sep, "pax_global_header">>, <<>>, <<>>, 420),
      Entry("Char", <<"go", Sep, "c">>, <<>>, <<>>, 420) }

RECURSIVE SeqsUpTo(_, _)
\* The sequences over S of length at most n.
SeqsUpTo(S, n) ==
    IF n = 0 THEN {<<>>}
    ELSE LET shorter == SeqsUpTo(S, n - 1) IN
         shorter \cup {Append(q, e) : q \in {r \in shorter : Len(r) = n - 1}, e \in S}

Archives == SeqsUpTo(Entries, MaxEntries)

\* The response body in units: one unit per entry (header and data), one
\* for the end-of-archive marker, then tail units that follow the marker.
BodyLen(b) == Len(b.entries) + 1 + b.tail

\* The directory tree the process starts in: /h/w is the working
\* directory, /h/w/t a directory and /h/w/f a regular file.
BaseFs ==
    (<<>> :> DirNode) @@ (<<"h">> :> DirNode) @@ (<<"h", "w">> :> DirNode)
    @@ (<<"h", "w", "t">> :> DirNode)
    @@ (<<"h", "w", "f">> :> FileNode(1, <<"f">>, 420))

\* What /h/w/t holds before the call.
PreFs(pre) ==
    CASE pre = "godir" ->
           (<<"h", "w", "t", "go">> :> DirNode)
           @@ (<<"h", "w", "t", "go", "old">> :> FileNode(2, <<"o">>, 420)) @@ BaseFs
      [] pre = "dangling" ->
           (<<"h", "w", "t", "go">> :> SymlinkNode(<<"nowhere">>)) @@ BaseFs
      [] pre = "loop" ->
           (<<"h", "w", "t", "go">> :> SymlinkNode(<<"go">>)) @@ BaseFs
      [] pre = "keep" ->
           (<<"h", "w", "t", "x">> :> FileNode(2, <<"k">>, 384)) @@ BaseFs
      [] OTHER -> BaseFs

\* A filename is its stem and its extension.
TarGz == <<"go1.linux-amd64", ".tar.gz">>

\* The calls: the dst argument as spelled, what dst holds, the filename.
Scenarios ==
    { [dst |-> <<"t">>, pre |-> "empty", name |-> TarGz],
      [dst |-> <<Sep, "h", Sep, "w", Sep, "t">>, pre |-> "empty", name |-> TarGz],
      [dst |-> <<"..">>, pre |-> "empty", name |-> TarGz],
      [dst |-> <<"t">>, pre |-> "keep", name |-> TarGz],
      [dst |-> <<"t">>, pre |-> "godir", name |-> TarGz],
      [dst |-> <<"t">>, pre |-> "dangling", name |-> TarGz],
      [dst |-> <<"t">>, pre |-> "loop", name |-> TarGz],
      [dst |-> <<"nodir">>, pre |-> "empty", name |-> TarGz],
      [dst |-> <<"f">>, pre |-> "empty", name |-> TarGz],
      [dst |-> <<"t">>, pre |-> "empty", name |-> <<"go1.darwin-amd64", ".pkg">>] }

(* ------------------------------------------------------------------ *)
(* The digest.                                                         *)
(* ------------------------------------------------------------------ *)

HexDigits == <<"0", "1", "2", "3", "4", "5", "6", "7", "8", "9",
               "a", "b", "c", "d", "e", "f">>

\* sha256 of the first n units of the response body, as a sequence of
\* nibbles. The bodies of one run are prefixes of one another, and SHA-256
\* is taken to be collision-free: the digest is determined by n.
Sha256Sum(n) == <<10, n % 16>>

\* fmt.Sprintf("%x", sum): lower-case hexadecimal.
SprintfX(sum) == [i \in 1..Len(sum) |-> HexDigits[sum[i] + 1]]

(* ------------------------------------------------------------------ *)
(* fetch.go                                                            *)
(* ------------------------------------------------------------------ *)

VARIABLES
    file,       \* the File argument: Filename and Sha256
    dstArg,     \* the dst argument as the caller spelled it
    body,       \* the response body: entries and tail
    fs0,        \* the filesystem when Fetch was called
    fs,         \* the filesystem
    pc,         \* where Fetch is
    dst,        \* the local dst after line 41
    requests,   \* calls of http.Get made
    deferred,   \* whether the rollback function of line 62 is registered
    success,    \* the local success
    pos,        \* entries the tar reader has yielded
    h,          \* the header tr.Next returned
    name,       \* the result of dstName for h
    hr,         \* units of the body that went through hashReader.Read
    streamErr,  \* whether the response stream was malformed or cut short
    err,        \* the error Fetch returns, "" for nil
    rd          \* a hashReader on its own, with the source it wraps

vars == <<file, dstArg, body, fs0, fs, pc, dst, requests, deferred, success,
          pos, h, name, hr, streamErr, err, rd>>

NoEntry == Entry("", <<>>, <<>>, <<>>, 0)

\* The digests a caller may declare for a body: that of the whole body
\* and that of the body without its last unit.
Declared(b) == {SprintfX(Sha256Sum(BodyLen(b))), SprintfX(Sha256Sum(BodyLen(b) - 1))}

\* strings.ToUpper on a hexadecimal string.
ToUpper(s) ==
    [i \in 1..Len(s) |->
        CASE s[i] = "a" -> "A" [] s[i] = "b" -> "B" [] s[i] = "c" -> "C"
          [] s[i] = "d" -> "D" [] s[i] = "e" -> "E" [] s[i] = "f" -> "F"
          [] OTHER -> s[i]]

\* A hashReader that has read nothing: src is what its source still
\* holds, h what was written to the digest, out what Read has returned;
\* n, err and buf are the last results of Read, wn, werr and wbuf those
\* of the source's Read below it.
NewReader(src) ==
    [src |-> src, h |-> <<>>, out |-> <<>>, n |-> 0, err |-> "", buf |-> <<>>,
     wn |-> 0, werr |-> "", wbuf |-> <<>>, calls |-> 0]

\* A call of Fetch: the arguments and the filesystem of a scenario of S,
\* an archive of A as the response body; upper adds the declared digests
\* written in upper case.
InitOf(S, A, upper) ==
    \E sc \in S, a \in A, t \in 0..MaxTail :
    \E sha \in Declared([entries |-> a, tail |-> t])
                \cup (IF upper
                      THEN {ToUpper(d) : d \in Declared([entries |-> a, tail |-> t])}
                      ELSE {}) :
        /\ file = [Filename |-> sc.name, Sha256 |-> sha]
        /\ dstArg = sc.dst
        /\ body = [entries |-> a, tail |-> t]
        /\ fs0 = PreFs(sc.pre)
        /\ fs = PreFs(sc.pre)
        /\ pc = "start"
        /\ dst = <<>>
        /\ requests = 0
        /\ deferred = FALSE
        /\ success = FALSE
        /\ pos = 0
        /\ h = NoEntry
        /\ name = <<>>
        /\ hr = 0
        /\ streamErr = FALSE
        /\ err = ""
        /\ rd = NewReader(<<>>)

Init == InitOf(Scenarios, Archives, FALSE)

\* dstName without its prefix check.
dstNameUnchecked(d, n) == [name |-> Clean(Join(d, n)), err |-> ""]

\* dstName: the cleaned join of dst and name, an error unless dst is a
\* prefix of it.
dstName(d, n) ==
    LET r == Clean(Join(d, n)) IN
    IF ~HasPrefix(r, d) THEN [name |-> <<>>, err |-> "bad path"]
    ELSE [name |-> r, err |-> ""]

\* os.FileMode(h.Mode) & os.ModePerm: the low nine bits.
PermBits(m) == m % 512

\* store, for an entry whose sub-stream delivers got bytes, with an error
\* from the copy if copyErr.
store(f, d, hd, nm, got, copyErr) ==
    LET f1 == MkdirAll(f, Dir(nm)).fs IN
    CASE hd.Typeflag = "Reg" ->
           LET c == Create(f1, nm)
               f2 == FileWrite(c.fs, c.ino, SubSeq(hd.Data, 1, got))
           IN
           IF c.err # "" THEN [fs |-> f1, err |-> c.err]
           ELSE IF copyErr THEN [fs |-> f2, err |-> "extracting"]
           ELSE IF got # hd.Size THEN [fs |-> f2, err |-> "extracting bytes"]
           ELSE [fs |-> FileChmod(f2, c.ino, PermBits(hd.Mode)), err |-> ""]
      [] hd.Typeflag = "Link" ->
           LET ln == dstName(d, hd.Linkname) IN
           IF ln.err # "" THEN [fs |-> f1, err |-> ln.err]
           ELSE Link(f1, ln.name, nm)
      [] hd.Typeflag = "Symlink" ->
           LET ln == dstName(d, hd.Linkname) IN
           IF ln.err # "" THEN [fs |-> f1, err |-> ln.err]
           ELSE Symlink(f1, ln.name, nm)
      [] hd.Typeflag = "Dir" -> Mkdir(f1, nm)
      [] hd.Typeflag \in {"XGlobalHeader", "GNUSparse"} -> [fs |-> f1, err |-> ""]
      [] OTHER -> [fs |-> f1, err |-> "unsupported tar header typeflag"]

\* Fetch returns e from a point before the rollback function is registered.
ReturnEarly(e) ==
    /\ err' = e
    /\ pc' = "done"

\* Fetch returns e with the deferred functions still to run.
Return(e) ==
    /\ err' = e
    /\ pc' = "return"

\* The checks on the arguments without the probe of dst/go (lines 35-38).
ValidateWithoutGoProbe ==
    /\ pc = "start"
    /\ LET st == Stat(fs, dstArg) IN
       IF ~HasSuffix(file.Filename, <<".tar.gz">>)
       THEN ReturnEarly("file extension not supported") /\ dst' = dst
       ELSE IF st.err # "" /\ IsNotExist(st.err)
       THEN ReturnEarly("dst does not exist") /\ dst' = dst
       ELSE IF st.err # ""
       THEN ReturnEarly(st.err) /\ dst' = dst
       ELSE IF st.node.kind # "dir"
       THEN ReturnEarly("dst is not a directory") /\ dst' = dst
       ELSE /\ dst' = Clean(dstArg) \o <<Sep>>
            /\ pc' = "get"
            /\ err' = err
    /\ UNCHANGED <<rd, file, dstArg, body, fs0, fs, requests, deferred, success,
                   pos, h, name, hr, streamErr>>

\* Lines 21-41: the checks on the arguments.
Validate ==
    /\ pc = "start"
    /\ LET st == Stat(fs, dstArg)
           go == Stat(fs, Join(dstArg, <<"go">>))
       IN
       IF ~HasSuffix(file.Filename, <<".tar.gz">>)
       THEN ReturnEarly("file extension not supported") /\ dst' = dst
       ELSE IF st.err # "" /\ IsNotExist(st.err)
       THEN ReturnEarly("dst does not exist") /\ dst' = dst
       ELSE IF st.err # ""
       THEN ReturnEarly(st.err) /\ dst' = dst
       ELSE IF st.node.kind # "dir"
       THEN ReturnEarly("dst is not a directory") /\ dst' = dst
       ELSE IF go.err = ""
       THEN ReturnEarly("directory go already exists") /\ dst' = dst
       ELSE /\ dst' = Clean(dstArg) \o <<Sep>>
            /\ pc' = "get"
            /\ err' = err
    /\ UNCHANGED <<rd, file, dstArg, body, fs0, fs, requests, deferred, success,
                   pos, h, name, hr, streamErr>>

\* Lines 43-51: the request; the server answers 200 or not, or not at all.
HttpGet ==
    /\ pc = "get"
    /\ requests' = requests + 1
    /\ \E outcome \in {"error", "404", "200"} :
         IF outcome = "error" THEN ReturnEarly("downloading file")
         ELSE IF outcome # "200" THEN ReturnEarly("downloading file: status")
         ELSE pc' = "gzip" /\ err' = err
    /\ UNCHANGED <<rd, file, dstArg, body, fs0, fs, dst, deferred, success,
                   pos, h, name, hr, streamErr>>

\* Lines 53-66: the gzip header is read through the hashReader; after it
\* the rollback function is registered.
GzipNewReader ==
    /\ pc = "gzip"
    /\ \E ok \in BOOLEAN :
         IF ~ok
         THEN /\ ReturnEarly("gzip reader")
              /\ streamErr' = TRUE
              /\ UNCHANGED <<deferred, success>>
         ELSE /\ success' = FALSE
              /\ deferred' = TRUE
              /\ pc' = "next"
              /\ UNCHANGED <<err, streamErr>>
    /\ UNCHANGED <<rd, file, dstArg, body, fs0, fs, dst, requests, pos, h, name, hr>>

\* Lines 70-76: tr.Next. The units up to the header it returns have gone
\* through the hashReader. At the end-of-archive marker it returns io.EOF
\* without reading on: of the units after the marker, any number may have
\* been pulled into the decompressor's buffer by then.
TarNext ==
    /\ pc = "next"
    /\ \/ /\ pos < Len(body.entries)
          /\ h' = body.entries[pos + 1]
          /\ pos' = pos + 1
          /\ hr' = pos + 1
          /\ pc' = "dstName"
          /\ UNCHANGED <<err, streamErr>>
       \/ /\ pos = Len(body.entries)
          /\ \E k \in (Len(body.entries) + 1)..BodyLen(body) : hr' = k
          /\ pc' = "sum"
          /\ UNCHANGED <<h, pos, err, streamErr>>
       \/ /\ Return("reading next header from tar file")
          /\ streamErr' = TRUE
          /\ UNCHANGED <<h, pos, hr>>
    /\ UNCHANGED <<rd, file, dstArg, body, fs0, fs, dst, requests, deferred, success, name>>

\* Lines 78-81: the path check on the entry's name.
DstName ==
    /\ pc = "dstName"
    /\ LET r == dstName(dst, h.Name) IN
       IF r.err # "" THEN Return(r.err) /\ name' = name
       ELSE name' = r.name /\ pc' = "store" /\ err' = err
    /\ UNCHANGED <<rd, file, dstArg, body, fs0, fs, dst, requests, deferred, success,
                   pos, h, hr, streamErr>>

\* A store step that records the error and goes on to the next entry.
StoreKeepsGoing ==
    /\ pc = "store"
    /\ \E got \in 0..h.Size :
         LET r == store(fs, dst, h, name, got, got < h.Size) IN
         /\ fs' = r.fs
         /\ streamErr' = (streamErr \/ got < h.Size)
         /\ pc' = "next"
         /\ err' = IF r.err # "" THEN r.err ELSE err
    /\ UNCHANGED <<rd, file, dstArg, body, fs0, dst, requests, deferred, success,
                   pos, h, name, hr>>

\* Lines 83-86: store. The entry's sub-stream delivers all of its data,
\* or the stream ends early and the copy fails.
Store ==
    /\ pc = "store"
    /\ \E got \in 0..h.Size :
         LET r == store(fs, dst, h, name, got, got < h.Size) IN
         /\ fs' = r.fs
         /\ streamErr' = (streamErr \/ got < h.Size)
         /\ IF r.err # "" THEN Return(r.err) ELSE pc' = "next" /\ err' = err
    /\ UNCHANGED <<rd, file, dstArg, body, fs0, dst, requests, deferred, success,
                   pos, h, name, hr>>

\* Lines 89-94: the digest of what went through the hashReader against the
\* declared one.
Checksum ==
    /\ pc = "sum"
    /\ LET sum == SprintfX(Sha256Sum(hr)) IN
       IF sum # file.Sha256
       THEN Return("checksum mismatch") /\ success' = success
       ELSE success' = TRUE /\ Return("")
    /\ UNCHANGED <<rd, file, dstArg, body, fs0, fs, dst, requests, deferred,
                   pos, h, name, hr, streamErr>>

\* A deferred function that removes nothing.
RollbackForgotten(f, d, ok) == f

\* Lines 62-66: the deferred function, run as Fetch returns.
Rollback(f, d, ok) == IF ~ok THEN RemoveAll(f, Join(d, <<"go">>)) ELSE f

Deferred ==
    /\ pc = "return"
    /\ deferred
    /\ fs' = Rollback(fs, dst, success)
    /\ pc' = "done"
    /\ UNCHANGED <<rd, file, dstArg, body, fs0, dst, requests, deferred, success,
                   pos, h, name, hr, streamErr, err>>

Next ==
    \/ Validate
    \/ HttpGet
    \/ GzipNewReader
    \/ TarNext
    \/ DstName
    \/ Store
    \/ Checksum
    \/ Deferred

Spec == Init /\ [][Next]_vars

(* ------------------------------------------------------------------ *)
(* What the claims speak of.                                           *)
(* ------------------------------------------------------------------ *)

\* The path of the go subdirectory, as lines 35 and 64 spell it.
GoPath == Join(dstArg, <<"go">>)

\* Where the dst argument leads when Fetch is called.
DstLoc == Resolve(fs0, dstArg, TRUE).loc

GoLoc == Append(DstLoc, "go")

\* The part of a filesystem at and below d.
Tree(f, d) == [l \in {k \in DOMAIN f : Under(k, d)} |-> f[l]]

\* The part of a filesystem that is not at or below d.
Outside(f, d) == [l \in {k \in DOMAIN f : ~Under(k, d)} |-> f[l]]

\* Fetch got past the checks of lines 21-41.
Validated == dst # <<>>

\* Fetch has returned, with or without an error.
Returned == pc = "done"

\* The spec's extraction root: dst/go with a trailing separator.
GoRoot == Join(dst, <<"go">>) \o <<Sep>>

\* The types of entry that make an object.
ObjectTypes == {"Reg", "Dir", "Link", "Symlink"}

\* The tar reader reached the end-of-archive marker: every entry was
\* yielded and stored.
ReachedEnd == hr > Len(body.entries)

\* The digest of the whole response body, as the caller would declare it.
TrueDigest == SprintfX(Sha256Sum(BodyLen(body)))

(* ------------------------------------------------------------------ *)
(* C1                                                                  *)
(* ------------------------------------------------------------------ *)

\* C1: when Fetch got past validation and returns an error, whatever the
\* reason and however many entries were extracted, dst/go does not exist:
\* os.Stat finds nothing there and nothing the call wrote is left at or
\* below it.
C1_GoAbsentAfterFailure ==
    (Returned /\ Validated /\ err # "") =>
        /\ Stat(fs, GoPath).err # ""
        /\ \A l \in DOMAIN fs :
             Under(l, GoLoc) => l \in DOMAIN fs0 /\ fs[l] = fs0[l]

\* A call that extracted a directory go and a file in it, failed on the
\* digest and returned with dst/go gone.
C1_Witness ==
    /\ Returned /\ Validated
    /\ err = "checksum mismatch"
    /\ pos = 2
    /\ body.entries[1].Typeflag = "Dir"
    /\ body.entries[2].Name = <<"go", Sep, "V">>
    /\ Lstat(fs, GoPath).err = "ENOENT"

(* ------------------------------------------------------------------ *)
(* C2                                                                  *)
(* ------------------------------------------------------------------ *)

\* C2: whenever Fetch returns an error, dst holds exactly what it held
\* before the call (stated for a dst that holds nothing named go, as the
\* documentation of Fetch requires).
C2_DstUnchangedAfterFailure ==
    (Returned /\ err # "" /\ Lstat(fs0, GoPath).err # "") =>
        Tree(fs, DstLoc) = Tree(fs0, DstLoc)

(* ------------------------------------------------------------------ *)
(* C3                                                                  *)
(* ------------------------------------------------------------------ *)

\* C3: no entry of any archive creates, writes or links anything at a
\* location outside the destination directory.
C3_NothingOutsideDst ==
    Validated => Outside(fs, DstLoc) = Outside(fs0, DstLoc)

(* ------------------------------------------------------------------ *)
(* C4                                                                  *)
(* ------------------------------------------------------------------ *)

C5_SuccessMeansGoTree ==
    (Returned /\ err = "") =>
        /\ Stat(fs, GoPath).err = ""
        /\ Stat(fs, GoPath).node.kind = "dir"
        /\ \A i \in 1..Len(body.entries) :
             body.entries[i].Typeflag \in ObjectTypes =>
                LET r == Resolve(fs, Join(dst, body.entries[i].Name), FALSE) IN
                r.err = "" /\ r.exists /\ Under(r.loc, GoLoc)

(* ------------------------------------------------------------------ *)
(* C6                                                                  *)
(* ------------------------------------------------------------------ *)

\* C6: Fetch returns success only if the declared digest is the digest of
\* the whole response body, every unit of which went through the
\* hashReader before the digest was taken.
C6_SuccessMeansWholeBodyDigest ==
    (Returned /\ err = "") =>
        /\ file.Sha256 = TrueDigest
        /\ hr = BodyLen(body)

(* ------------------------------------------------------------------ *)
(* C7                                                                  *)
(* ------------------------------------------------------------------ *)

\* The conditions validation is to refuse, on the arguments and the
\* filesystem of the call; dst contains go when os.Stat finds it.
BadFilename == ~HasSuffix(file.Filename, <<".tar.gz">>)

DstMissing == Stat(fs0, dstArg).err # ""

DstNotDir == Stat(fs0, dstArg).err = "" /\ Stat(fs0, dstArg).node.kind # "dir"

GoExists == Stat(fs0, GoPath).err = ""

\* C7: if the filename does not end in .tar.gz, dst does not exist, dst is
\* not a directory or dst already contains go, Fetch returns an error with
\* no network request made and the filesystem as it was.
C7_ValidationFailureHasNoEffect ==
    (pc # "start" /\ (BadFilename \/ DstMissing \/ DstNotDir \/ GoExists)) =>
        /\ Returned
        /\ err # ""
        /\ requests = 0
        /\ fs = fs0

\* Fetch returned from a dst that holds a directory go with a file in it,
\* which is still there.
C7_Witness ==
    /\ Returned
    /\ GoExists
    /\ ~BadFilename
    /\ err = "directory go already exists"
    /\ <<"h", "w", "t", "go", "old">> \in DOMAIN fs

(* ------------------------------------------------------------------ *)
(* C8                                                                  *)
(* ------------------------------------------------------------------ *)

\* C8: whatever the probe of dst/go returned, what was at dst/go before
\* the call is never removed or overwritten.
C8_ExistingGoKept ==
    \A l \in DOMAIN fs0 :
        Under(l, GoLoc) => l \in DOMAIN fs /\ fs[l] = fs0[l]

(* ------------------------------------------------------------------ *)
(* C9                                                                  *)
(* ------------------------------------------------------------------ *)

\* The entry's own path, or the target of a link entry, normalizes to a
\* path that does not begin with the cleaned dst and a separator.
Escapes(e) ==
    \/ dstName(dst, e.Name).err # ""
    \/ e.Typeflag \in {"Link", "Symlink"} /\ dstName(dst, e.Linkname).err # ""

\* C9: once Fetch has read an entry whose path or link target normalizes
\* outside the root, it returns an error, that entry's object is not
\* created and nothing written by the entries before it survives (stated
\* for a dst that holds nothing named go).
C9_TraversalRolledBack ==
    (Returned /\ Validated /\ pos >= 1 /\ Escapes(h) /\ Lstat(fs0, GoPath).err # "") =>
        /\ err # ""
        /\ Tree(fs, DstLoc) = Tree(fs0, DstLoc)

(* ------------------------------------------------------------------ *)
(* C10                                                                 *)
(* ------------------------------------------------------------------ *)

\* The file a regular-file entry names has the entry's content, size and
\* permission bits.
Extracted(e) ==
    LET st == Stat(fs, Join(dst, e.Name)) IN
    /\ st.err = ""
    /\ st.node.kind = "file"
    /\ st.node.data = e.Data
    /\ Len(st.node.data) = e.Size
    /\ st.node.mode = e.Mode % 512

\* C10: for a well-formed archive, every entry of which was read and
\* stored, whose true digest is the declared one, fetched into a directory
\* that holds nothing named go, Fetch returns success and every
\* regular-file entry is extracted with its content, size and permissions.
C10_WellFormedArchiveExtracted ==
    (Returned /\ ReachedEnd /\ ~streamErr /\ file.Sha256 = TrueDigest
       /\ Lstat(fs0, GoPath).err # "") =>
        /\ err = ""
        /\ \A i \in 1..Len(body.entries) :
             body.entries[i].Typeflag = "Reg" => Extracted(body.entries[i])

(* ------------------------------------------------------------------ *)
(* C11                                                                 *)
(* ------------------------------------------------------------------ *)

\* An archive with a directory, a regular file of mode 0644 and a
\* symbolic link whose target is written relative to the link's own
\* directory and lies inside go.
EndToEnd ==
    << Entry("Dir", <<"go", Sep>>, <<>>, <<>>, 493),
       Entry("Reg", <<"go", Sep, "VERSION">>, <<>>, <<"a">>, 420),
       Entry("Symlink", <<"go", Sep, "bin", Sep, "go">>,
             <<"..", Sep, "pkg", Sep, "tool", Sep, "go">>, <<>>, 511) >>

\* The archive and the archives it begins with.
EndToEndArchives == {SubSeq(EndToEnd, 1, n) : n \in 0..Len(EndToEnd)}

\* An empty dst, spelled relative and absolute.
EndToEndScenarios ==
    { [dst |-> <<"t">>, pre |-> "empty", name |-> TarGz],
      [dst |-> <<Sep, "h", Sep, "w", Sep, "t">>, pre |-> "empty", name |-> TarGz] }

InitEndToEnd == InitOf(EndToEndScenarios, EndToEndArchives, FALSE)

SpecEndToEnd == InitEndToEnd /\ [][Next]_vars

\* C11: with the archive of a directory go/, a file go/VERSION and a
\* symbolic link go/bin/go -> ../pkg/tool/go, served whole with its true
\* digest declared, Fetch returns success and dst/go/bin/go is a symbolic
\* link that resolves to dst/go/pkg/tool/go, which need not exist.
C11_RelativeSymlinkAccepted ==
    (Returned /\ deferred /\ ~streamErr
        /\ body.entries = EndToEnd /\ file.Sha256 = TrueDigest) =>
        LET link == Join(GoPath, <<"bin", Sep, "go">>) IN
        /\ err = ""
        /\ Lstat(fs, link).err = ""
        /\ Lstat(fs, link).node.kind = "symlink"
        /\ Resolve(fs, link, TRUE).loc = GoLoc \o <<"pkg", "tool", "go">>

(* ------------------------------------------------------------------ *)
(* C12                                                                 *)
(* ------------------------------------------------------------------ *)

\* Calls into an empty dst whose declared digest may be written in
\* upper case.
InitCase == InitOf({[dst |-> <<"t">>, pre |-> "empty", name |-> TarGz]}, Archives, TRUE)

SpecCase == InitCase /\ [][Next]_vars

\* strings.EqualFold on hexadecimal strings.
EqualFold(a, b) == ToUpper(a) = ToUpper(b)

\* C12: when Fetch has compared the digests, it returns success exactly
\* if the declared digest and the computed one are the same hexadecimal
\* text up to the case of the letters.
C12_DigestComparedIgnoringCase ==
    (Returned /\ ReachedEnd) =>
        (err = "" <=> EqualFold(file.Sha256, SprintfX(Sha256Sum(hr))))

(* ------------------------------------------------------------------ *)
(* C13                                                                 *)
(* ------------------------------------------------------------------ *)

\* The stages of Fetch and the stages each may hand over to.
After(stage) ==
    CASE stage = "start" -> {"get", "done"}
      [] stage = "get" -> {"gzip", "done"}
      [] stage = "gzip" -> {"next", "done"}
      [] stage = "next" -> {"dstName", "sum", "return"}
      [] stage = "dstName" -> {"store", "return"}
      [] stage = "store" -> {"next", "return"}
      [] stage = "sum" -> {"return"}
      [] stage = "return" -> {"done"}
      [] OTHER -> {}

\* C13: Fetch moves through its stages in order and stops at the first
\* error. Entries are read one at a time in archive order, and an entry is
\* written only after its own path passed the check; once an error is set
\* no entry is read and nothing is written but by the rollback; the
\* digests are compared only when the entries are exhausted without an
\* error; success is set only by a comparison that matched, and Fetch
\* returns nil only with success set.
C13_StagesInOrder ==
    [][ /\ (pc' # pc => pc' \in After(pc))
        /\ (pos' # pos =>
              /\ pc = "next" /\ pc' = "dstName"
              /\ pos' = pos + 1
              /\ h' = body.entries[pos'])
        /\ (fs' # fs /\ pc # "return" =>
              /\ pc = "store"
              /\ h = body.entries[pos]
              /\ dstName(dst, h.Name).err = ""
              /\ name = dstName(dst, h.Name).name)
        /\ (err # "" => pos' = pos /\ h' = h /\ pc \in {"return", "done"})
        /\ (err' # "" /\ err = "" => pc' \in {"return", "done"})
        /\ (pc' = "sum" /\ pc # "sum" =>
              pc = "next" /\ pos = Len(body.entries) /\ err = "" /\ ~streamErr)
        /\ (success' /\ ~success =>
              pc = "sum" /\ SprintfX(Sha256Sum(hr)) = file.Sha256)
        /\ (pc' = "done" /\ err' = "" => success') ]_vars

\* Fetch has returned the error of an entry that was not the last of the
\* archive: the entries after it were never read.
C13_Witness ==
    /\ Returned
    /\ err # ""
    /\ ~success
    /\ pos >= 1
    /\ pos < Len(body.entries)

(* ------------------------------------------------------------------ *)
(* C14: the hashReader on its own                                      *)
(* ------------------------------------------------------------------ *)

MaxSrc == 3

MaxBuf == 2

MaxCalls == 3

\* What a wrapped source may hold.
Sources == SeqsUpTo({"a", "b"}, MaxSrc)

\* io.Reader: what hr.r.Read may return on a buffer of length l when the
\* source still holds src: a count of at most l bytes with no error, with
\* io.EOF when nothing is left after them, or with the error of a source
\* that broke.
SourceReads(src, l) ==
    {[n |-> k, err |-> e] :
        k \in {j \in 0..l : j <= Len(src)}, e \in {"", "EOF", "unexpected EOF"}}
    \ {[n |-> k, err |-> "EOF"] : k \in {j \in 0..l : j < Len(src)}}

\* A Read that writes to the digest only what came without an error.
hashReaderReadOnSuccess(hs, buf, n, e) ==
    [h |-> IF e = "" THEN hs \o SubSeq(buf, 1, n) ELSE hs, n |-> n, err |-> e]

\* Lines 102-108: hashReader.Read, after hr.r.Read put n bytes into buf and
\* returned n and e; hs is what the digest has been fed.
hashReaderRead(hs, buf, n, e) ==
    [h |-> IF n > 0 THEN hs \o SubSeq(buf, 1, n) ELSE hs, n |-> n, err |-> e]

\* One call of Read on a buffer of length l.
Read ==
    /\ rd.calls < MaxCalls
    /\ \E l \in 0..MaxBuf :
       \E w \in SourceReads(rd.src, l) :
          LET buf == SubSeq(rd.src, 1, w.n)
              ret == hashReaderRead(rd.h, buf, w.n, w.err)
          IN rd' = [src |-> SubSeq(rd.src, w.n + 1, Len(rd.src)),
                    h |-> ret.h,
                    out |-> rd.out \o SubSeq(buf, 1, ret.n),
                    n |-> ret.n, err |-> ret.err, buf |-> SubSeq(buf, 1, ret.n),
                    wn |-> w.n, werr |-> w.err, wbuf |-> SubSeq(buf, 1, w.n),
                    calls |-> rd.calls + 1]
    /\ UNCHANGED <<file, dstArg, body, fs0, fs, pc, dst, requests, deferred, success,
                   pos, h, name, hr, streamErr, err>>

\* A hashReader over a source, before Fetch is called.
InitRead ==
    /\ \E src \in Sources : rd = NewReader(src)
    /\ file = [Filename |-> TarGz, Sha256 |-> SprintfX(Sha256Sum(1))]
    /\ dstArg = <<"t">>
    /\ body = [entries |-> <<>>, tail |-> 0]
    /\ fs0 = BaseFs
    /\ fs = BaseFs
    /\ pc = "start"
    /\ dst = <<>>
    /\ requests = 0
    /\ deferred = FALSE
    /\ success = FALSE
    /\ pos = 0
    /\ h = NoEntry
    /\ name = <<>>
    /\ hr = 0
    /\ streamErr = FALSE
    /\ err = ""

NextRead == Read

SpecRead == InitRead /\ [][NextRead]_vars

\* C14: after any sequence of Read calls the digest has been fed exactly
\* the bytes the calls returned, in order, and the last call returned the
\* count, the bytes and the error its source returned; bytes returned
\* together with an error are among those fed.
C14_DigestFedWhatWasReturned ==
    /\ rd.h = rd.out
    /\ rd.n = rd.wn
    /\ rd.buf = rd.wbuf
    /\ rd.err = rd.werr

\* A second or later Read returned bytes together with an error.
C14_Witness ==
    /\ rd.calls >= 2
    /\ rd.err # ""
    /\ rd.n > 0
    /\ Len(rd.h) > rd.n
    /\ rd.h = rd.out

(* ------------------------------------------------------------------ *)
(* C15                                                                 *)
(* ------------------------------------------------------------------ *)

\* C15: a hard-link or symbolic-link entry whose link target fails the
\* path check is rejected with the filesystem as it was before the entry:
\* nothing is written for it, not even a parent directory.
C15_RejectedLinkLeavesNoTrace ==
    [][ (/\ pc = "store"
         /\ h.Typeflag \in {"Link", "Symlink"}
         /\ dstName(dst, h.Linkname).err # "") =>
            (fs' = fs /\ pc' = "return" /\ err' # "") ]_vars

(* ------------------------------------------------------------------ *)
(* C16                                                                 *)
(* ------------------------------------------------------------------ *)

\* The path names a directory, links followed.
IsDir(f, p) == Stat(f, p).err = "" /\ Stat(f, p).node.kind = "dir"

\* C16: when an entry is stored, a missing parent directory is created
\* and an existing one is accepted: a directory entry whose own path is
\* free is created below it. A directory entry whose own path exists
\* already fails with nothing written, and the Fetch that returns its
\* error has removed dst/go.
C16_ExistingDirectoryEntryFails ==
    /\ [][ pc = "store" =>
            /\ (Lstat(fs, Dir(name)).err = "ENOENT" /\ IsDir(fs, Dir(Dir(name))) =>
                  IsDir(fs', Dir(name)))
            /\ (h.Typeflag = "Dir" /\ IsDir(fs, Dir(name))
                  /\ Lstat(fs, name).err = "ENOENT" =>
                  pc' = "next" /\ err' = "" /\ IsDir(fs', name))
            /\ (h.Typeflag = "Dir" /\ Lstat(fs, name).err = "" =>
                  pc' = "return" /\ err' = "EEXIST" /\ fs' = fs) ]_vars
    /\ [](Returned /\ h.Typeflag = "Dir" /\ err = "EEXIST" =>
            Stat(fs, GoPath).err # "")

\* Fetch has failed on a directory entry whose path had been created as
\* the parent of the entry before it, and go is gone.
C16_Witness ==
    /\ Returned
    /\ err = "EEXIST"
    /\ pos = 2
    /\ h.Typeflag = "Dir"
    /\ body.entries[1].Typeflag = "Reg"
    /\ Dir(Join(dst, body.entries[1].Name)) = name
    /\ Lstat(fs, GoPath).err = "ENOENT"

(* ------------------------------------------------------------------ *)
(* C17                                                                 *)
(* ------------------------------------------------------------------ *)

\* C17: storing a global-header or sparse-extension entry leaves the
\* filesystem as it was, whatever path the entry declares, and Fetch goes
\* on to the next entry.
C17_HeaderEntryHasNoEffect ==
    [][ (pc = "store" /\ h.Typeflag \in {"XGlobalHeader", "GNUSparse"}) =>
            (fs' = fs /\ pc' = "next" /\ err' = "") ]_vars

(* ------------------------------------------------------------------ *)
(* C18                                                                 *)
(* ------------------------------------------------------------------ *)

\* Archives of hard links: to a file of the archive, to a file that may
\* be in dst before the call, and to a directory.
LinkEntries ==
    { Entry("Dir", <<"go", Sep>>, <<>>, <<>>, 493),
      Entry("Reg", <<"go", Sep, "V">>, <<>>, <<"a">>, 420),
      Entry("Link", <<"go", Sep, "h">>, <<"go", Sep, "V">>, <<>>, 420),
      Entry("Link", <<"go", Sep, "k">>, <<"x">>, <<>>, 420),
      Entry("Link", <<"go", Sep, "d">>, <<"go">>, <<>>, 420) }

\* An empty dst and a dst that holds the file x.
LinkScenarios ==
    { [dst |-> <<"t">>, pre |-> "empty", name |-> TarGz],
      [dst |-> <<"t">>, pre |-> "keep", name |-> TarGz] }

InitLinks == InitOf(LinkScenarios, SeqsUpTo(LinkEntries, MaxEntries), FALSE)

SpecLinks == InitLinks /\ [][Next]_vars

\* Entry i of the archive is an object at path p.
CreatedBy(i, p) ==
    /\ body.entries[i].Typeflag \in ObjectTypes
    /\ Clean(Join(dst, body.entries[i].Name)) = p

SizeEntries ==
    { Entry("Reg", <<"go", Sep, "V">>, <<>>, <<"a", "a">>, 420),
      Entry("Link", <<"go", Sep, "h">>, <<"go", Sep, "V">>, <<>>, 420),
      Entry("Reg", <<"go", Sep, "h">>, <<>>, <<"b">>, 420),
      Entry("Reg", <<"go", Sep, "e">>, <<>>, <<>>, 420) }

InitSizes ==
    InitOf({[dst |-> <<"t">>, pre |-> "empty", name |-> TarGz]},
           SeqsUpTo(SizeEntries, MaxEntries + 1), FALSE)

SpecSizes == InitSizes /\ [][Next]_vars

\* Entry i is the only entry of the archive with its name.
OnlyEntryOfItsName(i) ==
    \A j \in 1..Len(body.entries) :
        body.entries[j].Name = body.entries[i].Name => j = i

\* C19: a Fetch during which the copy of a regular file came short has
\* failed and removed dst/go; when Fetch returns success no copy came
\* short and the file of every regular-file entry has exactly the size the
\* entry declares.
C19_FilesHaveDeclaredSize ==
    /\ (Returned /\ streamErr) => (err # "" /\ Stat(fs, GoPath).err # "")
    /\ (Returned /\ err = "") =>
          \A i \in 1..Len(body.entries) :
             (body.entries[i].Typeflag = "Reg" /\ OnlyEntryOfItsName(i)) =>
                LET st == Stat(fs, Join(dst, body.entries[i].Name)) IN
                /\ st.err = ""
                /\ st.node.kind = "file"
                /\ Len(st.node.data) = body.entries[i].Size

(* ------------------------------------------------------------------ *)
(* C20                                                                 *)
(* ------------------------------------------------------------------ *)

\* Spellings of existing directories without go: relative, absolute,
\* with a trailing separator, with "." and "..", the working directory
\* and the root.
SpellScenarios ==
    { [dst |-> <<"t">>, pre |-> "empty", name |-> TarGz],
      [dst |-> <<Sep, "h", Sep, "w", Sep, "t">>, pre |-> "empty", name |-> TarGz],
      [dst |-> <<"t", Sep>>, pre |-> "empty", name |-> TarGz],
      [dst |-> <<".", Sep, "t">>, pre |-> "empty", name |-> TarGz],
      [dst |-> <<"t", Sep, "..", Sep, "t">>, pre |-> "empty", name |-> TarGz],
      [dst |-> <<".">>, pre |-> "empty", name |-> TarGz],
      [dst |-> <<Sep>>, pre |-> "empty", name |-> TarGz] }

InitSpell == InitOf(SpellScenarios, SeqsUpTo(Entries, 1), FALSE)

SpecSpell == InitSpell /\ [][Next]_vars

\* A raw path of ordinary name segments: not rooted, no "." and no "..".
Ordinary(p) ==
    /\ p # <<>>
    /\ ~Rooted(p)
    /\ \A i \in 1..Len(p) : p[i] \notin {".", ".."}

\* C20: however the existing directory dst is spelled, the path check
\* accepts an entry whose raw path has only ordinary name segments, and
\* the path it returns is the normalized path of the entry below dst.
C20_OrdinaryPathAccepted ==
    [][ (pc = "dstName" /\ Ordinary(h.Name)) =>
          /\ pc' = "store"
          /\ err' = ""
          /\ name' = Clean(Join(dstArg, h.Name))
          /\ Under(Resolve(fs, name', FALSE).loc, DstLoc) ]_vars

====
